---- MODULE Spec2Model ----
(***************************************************************************)
(* Model of the tiered dataset-location resolver and file-promotion cache  *)
(* of mila_datamodules:                                                    *)
(*   - all_files_exist / copy_dataset_files   (clusters/utils.py)          *)
(*   - adapted_constructor._custom_init       (vision/datasets/            *)
(*                                             adapted_datasets.py)        *)
(*                                                                         *)
(* The file system is modelled per storage location ("tier") as a map from *)
(* the relative paths the dataset needs to directory entries.  An entry is *)
(* absent, a regular file, a directory of regular files, or a relative     *)
(* symbolic link.  File contents are labels: "A" is what scratch holds,    *)
(* "B" is what the other locations hold, "partial" is a file that was      *)
(* opened for writing and not yet completely written.                      *)
(***************************************************************************)
EXTENDS Integers, Sequences, FiniteSets, TLC

\* Number of files inside the required directory.
NumChildren == 1
\* Number of adapted constructions in one behaviour.
MaxRuns == 2
\* calls of copy_dataset_files the promoting processes make in all
MaxCalls == 2
\* calls of CityscapesDataModule.prepare_data
MaxPrepares == 3

Children == 1..NumChildren

None == "None"

\* The candidate locations of _custom_init.
fast_tmp_dir == "fast_tmp_dir"
scratch_dir == "scratch_dir"
dataset_root == "dataset_root"
original_root_dir == "original_root"
cwd == "cwd"
Tiers == {fast_tmp_dir, scratch_dir, dataset_root, original_root_dir, cwd}

\* the processes (jobs on one node) that call copy_dataset_files directly
Procs == {"p1", "p2"}

\* The required files of the dataset: a directory and a file.  The third
\* path is not required; it is what a relative symbolic link points to.
DirPath == "images"
FilePath == "data.bin"
LinkTarget == "real.bin"
Paths == {DirPath, FilePath, LinkTarget}

\* The registry of required files, in the order of the dictionary: two
\* registered dataset types of the same name, each with its own files.
dataset_files ==
    << [cls |-> "torchvision.MNIST", name |-> "MNIST",
        files |-> <<DirPath, FilePath>>],
       [cls |-> "bolts.MNIST", name |-> "MNIST", files |-> <<DirPath>>] >>

\* The dataset types adapted_constructor is called with: a registered one
\* (not the first of its name), a re-imported type object of a registered
\* name, an unknown type.
DatasetTypes ==
    { [cls |-> "bolts.MNIST", name |-> "MNIST"],
      [cls |-> "reloaded.MNIST", name |-> "MNIST"],
      [cls |-> "EMNIST", name |-> "EMNIST"] }

NoKids == [c \in Children |-> "none"]
NoEntry == [kind |-> "none", data |-> "none", kids |-> NoKids]
File(c) == [kind |-> "file", data |-> c, kids |-> NoKids]
Dir(k) == [kind |-> "dir", data |-> "none", kids |-> k]
Link(t) == [kind |-> "link", data |-> t, kids |-> NoKids]
EmptyTier == [p \in Paths |-> NoEntry]

VARIABLES
    dataset_cls,    \* the dataset type given to adapted_constructor
    adapted,        \* "no", "yes" (_custom_init was returned), "error" (raised)
    required,       \* required_files of the closure _custom_init
    fs,             \* tier -> path -> entry
    fs0,            \* fs when the current construction was invoked
    tooLarge,       \* dataset_cls in too_large_for_slurm_tmpdir
    stored,         \* is_stored_on_cluster(dataset_cls)
    pc,             \* position of the construction
    original_root,  \* the caller's 'root' argument
    branch,         \* the branch of the if-chain that was taken
    new_root,       \* the local new_root
    source_dir,     \* source_dir of the running copy_dataset_files
    dest_dir,       \* dest_dir of the running copy_dataset_files
    idx,            \* position of copy_dataset_files in files_to_copy
    todo,           \* children of the source directory copytree has yet to copy
    kid,            \* the child copytree is writing
    root,           \* the root the base constructor was called with
    copied,         \* copy_dataset_files was called by this construction
    base_calls,     \* calls of the base constructor by this construction
    runs,           \* constructions invoked so far
    promoters,      \* process -> its position in copy_dataset_files
    prepare         \* CityscapesDataModule.prepare_data and SLURM_TMPDIR/cityscapes

vars == <<dataset_cls, adapted, required, fs, fs0, tooLarge, stored, pc, original_root, branch, new_root,
          source_dir, dest_dir, idx, todo, kid, root, copied, base_calls, runs,
          promoters, prepare>>

\* required_files as _custom_init sees it.
required_files == required

----------------------------------------------------------------------------
(* Path.exists(): follows symbolic links, false for a dangling link.        *)
PathExists(tier, path) ==
    LET e == tier[path] IN
    CASE e.kind = "none" -> FALSE
      [] e.kind = "link" -> tier[e.data].kind # "none"
      [] OTHER -> TRUE

(* Path.is_dir(): the model's link targets are regular files.               *)
IsDir(tier, path) == tier[path].kind = "dir"

(* What a reader of the path gets: the bytes of a file (through a link),    *)
(* the children of a directory, "none" when the path does not exist.        *)
Read(tier, path) ==
    LET e == tier[path] IN
    CASE e.kind = "file" -> <<e.data>>
      [] e.kind = "link" -> IF tier[e.data].kind = "file"
                            THEN <<tier[e.data].data>> ELSE <<"none">>
      [] e.kind = "dir" -> <<e.kids>>
      [] OTHER -> <<"none">>

(* A variant with any() where the code has all().                           *)
all_files_exist_Any(files, base_dir) ==
    \E i \in 1..Len(files) : PathExists(fs[base_dir], files[i])

all_files_exist(files, base_dir) ==
    \A i \in 1..Len(files) : PathExists(fs[base_dir], files[i])

(* The same predicate evaluated on the file system as it was when the       *)
(* construction was invoked.                                                *)
all_files_existed(files, base_dir) ==
    \A i \in 1..Len(files) : PathExists(fs0[base_dir], files[i])

(* Variants of the if-chain with one slip each.                             *)
Resolve_ScratchFirst(orig) ==
    IF all_files_exist(required_files, scratch_dir)
    THEN (IF tooLarge THEN "scratch_read" ELSE "scratch_copy")
    ELSE IF all_files_exist(required_files, fast_tmp_dir) THEN "fast"
    ELSE IF stored /\ all_files_exist(required_files, dataset_root)
         THEN "dataset_root_copy"
    ELSE IF orig # None /\ all_files_exist(required_files, orig)
         THEN "original_root"
    ELSE IF orig = None /\ all_files_exist(required_files, cwd)
         THEN "cwd"
    ELSE "not_found"

Resolve_NoSizeException(orig) ==
    IF all_files_exist(required_files, fast_tmp_dir) THEN "fast"
    ELSE IF all_files_exist(required_files, scratch_dir) THEN "scratch_copy"
    ELSE IF stored /\ all_files_exist(required_files, dataset_root)
         THEN "dataset_root_copy"
    ELSE IF orig # None /\ all_files_exist(required_files, orig)
         THEN "original_root"
    ELSE IF orig = None /\ all_files_exist(required_files, cwd)
         THEN "cwd"
    ELSE "not_found"

Resolve_NoOriginalRoot(orig) ==
    IF all_files_exist(required_files, fast_tmp_dir) THEN "fast"
    ELSE IF all_files_exist(required_files, scratch_dir)
         THEN (IF tooLarge THEN "scratch_read" ELSE "scratch_copy")
    ELSE IF stored /\ all_files_exist(required_files, dataset_root)
         THEN "dataset_root_copy"
    ELSE IF orig = None /\ all_files_exist(required_files, cwd)
         THEN "cwd"
    ELSE "not_found"

Resolve_NoCwd(orig) ==
    IF all_files_exist(required_files, fast_tmp_dir) THEN "fast"
    ELSE IF all_files_exist(required_files, scratch_dir)
         THEN (IF tooLarge THEN "scratch_read" ELSE "scratch_copy")
    ELSE IF stored /\ all_files_exist(required_files, dataset_root)
         THEN "dataset_root_copy"
    ELSE IF orig # None /\ all_files_exist(required_files, orig)
         THEN "original_root"
    ELSE "not_found"

(* The if-chain of _custom_init.                                            *)
Resolve(orig) ==
    IF all_files_exist(required_files, fast_tmp_dir) THEN "fast"
    ELSE IF all_files_exist(required_files, scratch_dir)
         THEN (IF tooLarge THEN "scratch_read" ELSE "scratch_copy")
    ELSE IF stored /\ all_files_exist(required_files, dataset_root)
         THEN "dataset_root_copy"
    ELSE IF orig # None /\ all_files_exist(required_files, orig)
         THEN "original_root"
    ELSE IF orig = None /\ all_files_exist(required_files, cwd)
         THEN "cwd"
    ELSE "not_found"

(* A variant that leaves the caller's root in place when nothing is found.  *)
NewRootOf_KeepCallerRoot(b, orig) ==
    CASE b = "fast" -> fast_tmp_dir
      [] b = "scratch_read" -> scratch_dir
      [] b = "scratch_copy" -> fast_tmp_dir
      [] b = "dataset_root_copy" -> dataset_root
      [] b = "original_root" -> orig
      [] OTHER -> None

(* new_root as assigned in each branch (after the copy, where there is one).*)
NewRootOf(b, orig) ==
    CASE b = "fast" -> fast_tmp_dir
      [] b = "scratch_read" -> scratch_dir
      [] b = "scratch_copy" -> fast_tmp_dir
      [] b = "dataset_root_copy" -> dataset_root
      [] b = "original_root" -> orig
      [] b = "cwd" -> None
      [] OTHER -> scratch_dir

(* The source of the copy_dataset_files call of a branch.                   *)
CopySourceOf(b) ==
    CASE b = "scratch_copy" -> scratch_dir
      [] b = "dataset_root_copy" -> dataset_root
      [] OTHER -> None

----------------------------------------------------------------------------
SourceDirs == {NoEntry} \cup {Dir(k) : k \in [Children -> {"none", "A"}]}
FastDirs == {NoEntry} \cup {Dir(k) : k \in [Children -> {"none", "B"}]}
FullDirB == Dir([c \in Children |-> "B"])

ScratchTiers ==
    {[p \in Paths |-> CASE p = DirPath -> d
                        [] p = FilePath -> f
                        [] OTHER -> IF f.kind = "link" THEN File("A") ELSE NoEntry] :
        d \in SourceDirs, f \in {NoEntry, File("A"), Link(LinkTarget)}}

FastTiers ==
    {[p \in Paths |-> CASE p = DirPath -> d
                        [] p = FilePath -> ft[1]
                        [] OTHER -> ft[2]] :
        d \in FastDirs,
        ft \in {<<NoEntry, NoEntry>>, <<NoEntry, File("B")>>,
                <<File("B"), NoEntry>>, <<Link(LinkTarget), NoEntry>>,
                <<Link(LinkTarget), File("B")>>}}

SharedTiers ==
    {[p \in Paths |-> CASE p = DirPath -> df[1]
                        [] p = FilePath -> df[2]
                        [] OTHER -> IF df[2].kind = "link"
                                    THEN File("B") ELSE NoEntry] :
        df \in {<<NoEntry, NoEntry>>, <<FullDirB, NoEntry>>,
                <<FullDirB, File("B")>>, <<FullDirB, Link(LinkTarget)>>}}

CompleteTierB ==
    [p \in Paths |-> CASE p = DirPath -> FullDirB
                       [] p = FilePath -> File("B")
                       [] OTHER -> NoEntry]

OtherTiers == {EmptyTier, CompleteTierB}

(* The clusters whose cityscapes directory is known.                        *)
cityscapes_dir_locations == [c \in {"MILA"} |-> "cityscapes_torchvision"]

(* A job that has not called prepare_data, on a MILA node whose             *)
(* SLURM_TMPDIR/cityscapes does not exist. cluster is CURRENT_CLUSTER, src  *)
(* the files of the cityscapes directory, dir and kids the directory        *)
(* data_dir and its files, done the file done.txt, pc the position in       *)
(* prepare_data, todo and kid the locals of copytree, calls the calls made; *)
(* marked, before and wrote record the call under way: done.txt and         *)
(* data_dir as it found them, and whether it has made a copy step.          *)
NotPrepared ==
    [cluster |-> "MILA", src |-> NoKids, pc |-> "idle", dir |-> FALSE,
     kids |-> NoKids, done |-> FALSE, todo |-> {}, kid |-> 1, calls |-> 0,
     marked |-> FALSE, before |-> <<FALSE, NoKids>>, wrote |-> FALSE]

(* A process that has not called copy_dataset_files: pc is its position,   *)
(* idx, todo and kid are the locals of the loop and of copytree, calls      *)
(* counts its calls, snap holds the destination as its running (or last)    *)
(* call found it.                                                           *)
NotCalled ==
    [pc |-> "idle", idx |-> 1, todo |-> {}, kid |-> 1, calls |-> 0,
     snap |-> <<>>]

Init ==
    /\ \E fa \in FastTiers, sc \in ScratchTiers, sh \in SharedTiers,
          og \in OtherTiers, cw \in OtherTiers :
          fs = [t \in Tiers |-> CASE t = fast_tmp_dir -> fa
                                  [] t = scratch_dir -> sc
                                  [] t = dataset_root -> sh
                                  [] t = original_root_dir -> og
                                  [] OTHER -> cw]
    /\ fs0 = fs
    /\ dataset_cls \in DatasetTypes
    /\ adapted = "no"
    /\ required = <<>>
    /\ tooLarge \in BOOLEAN
    /\ stored \in BOOLEAN
    /\ pc = "idle"
    /\ original_root = None
    /\ branch = None
    /\ new_root = None
    /\ source_dir = None
    /\ dest_dir = None
    /\ idx = 1
    /\ todo = {}
    /\ kid = 1
    /\ root = None
    /\ copied = FALSE
    /\ base_calls = 0
    /\ runs = 0
    /\ promoters = [p \in Procs |-> NotCalled]
    /\ prepare = NotPrepared

----------------------------------------------------------------------------
config == <<tooLarge, stored, dataset_cls, adapted, required, promoters, prepare>>
construction == <<pc, original_root, branch, new_root, source_dir, dest_dir,
                  idx, todo, kid, root, copied, base_calls, runs>>

(* Positions of the registry entries that are the type itself / bear its    *)
(* name.                                                                    *)
ByIdentity(dataset) ==
    {i \in DOMAIN dataset_files : dataset_files[i].cls = dataset.cls}
ByName(dataset) ==
    {i \in DOMAIN dataset_files : dataset_files[i].name = dataset.name}
First(S) == CHOOSE i \in S : \A j \in S : i <= j

(* A variant that tries the name before the identity.                       *)
LookupFiles_NameFirst(dataset) ==
    IF ByName(dataset) # {}
    THEN [found |-> TRUE, files |-> dataset_files[First(ByName(dataset))].files]
    ELSE IF ByIdentity(dataset) # {}
    THEN [found |-> TRUE,
          files |-> dataset_files[First(ByIdentity(dataset))].files]
    ELSE [found |-> FALSE, files |-> <<>>]

(* A variant that puts off the failure: an unknown type gets no files.      *)
LookupFiles_Deferred(dataset) ==
    IF ByIdentity(dataset) # {}
    THEN [found |-> TRUE,
          files |-> dataset_files[First(ByIdentity(dataset))].files]
    ELSE IF ByName(dataset) # {}
    THEN [found |-> TRUE, files |-> dataset_files[First(ByName(dataset))].files]
    ELSE [found |-> TRUE, files |-> <<>>]

(* The lookup of adapted_constructor: by identity, else the first entry of  *)
(* the same name, else NotImplementedError.                                 *)
LookupFiles(dataset) ==
    IF ByIdentity(dataset) # {}
    THEN [found |-> TRUE,
          files |-> dataset_files[First(ByIdentity(dataset))].files]
    ELSE IF ByName(dataset) # {}
    THEN [found |-> TRUE, files |-> dataset_files[First(ByName(dataset))].files]
    ELSE [found |-> FALSE, files |-> <<>>]

(* adapted_constructor(dataset_cls): returns _custom_init or raises.        *)
Adapt ==
    /\ adapted = "no"
    /\ LET r == LookupFiles(dataset_cls)
       IN /\ adapted' = IF r.found THEN "yes" ELSE "error"
          /\ required' = r.files
    /\ UNCHANGED <<dataset_cls, tooLarge, stored, fs, fs0, construction, promoters,
                   prepare>>
call == <<fs0, original_root, branch, source_dir, dest_dir, copied, runs>>

(* A variant that writes the entry under the source of the copy.           *)
WithEntry_IntoSource(tier, path, e) == [fs EXCEPT ![source_dir][path] = e]

(* fs with one entry of one tier replaced.                                  *)
WithEntry(tier, path, e) == [fs EXCEPT ![tier][path] = e]

(* fs with one child of a directory of one tier replaced.                   *)
WithKid(tier, path, c, v) == [fs EXCEPT ![tier][path].kids[c] = v]

(* The path copy_dataset_files is at.                                       *)
source_file == required_files[idx]

(* A variant that copies the file whether or not the destination exists.   *)
ShouldCopyFile_Always(dst, path) == TRUE

(* elif not destination_path.exists()                                       *)
ShouldCopyFile(dst, path) == ~PathExists(dst, path)

(* The file open(dst, 'wb') writes: the path, or what a link there names.   *)
WriteTarget(dst, path) ==
    IF dst[path].kind = "link" THEN dst[path].data ELSE path

(* _custom_init up to the base constructor or the first copy step:          *)
(* the if-chain, and the assertion of copy_dataset_files.                   *)
CustomInit(orig) ==
    /\ adapted = "yes"
    /\ pc \in {"idle", "done", "failed", "interrupted"}
    /\ runs < MaxRuns
    /\ LET b == Resolve(orig)
           src == CopySourceOf(b)
       IN /\ branch' = b
          /\ source_dir' = src
          /\ dest_dir' = IF src = None THEN None ELSE fast_tmp_dir
          /\ copied' = (src # None)
          /\ IF src = None
             THEN /\ new_root' = NewRootOf(b, orig)
                  /\ pc' = "base_init"
             ELSE /\ new_root' = None
                  /\ pc' = IF all_files_exist(required_files, src)
                           THEN "copy" ELSE "failed"
    /\ original_root' = orig
    /\ fs0' = fs
    /\ idx' = 1
    /\ todo' = {}
    /\ kid' = 1
    /\ root' = None
    /\ base_calls' = 0
    /\ runs' = runs + 1
    /\ UNCHANGED <<fs, config>>

InCopy == pc = "copy" /\ idx <= Len(required_files)

(* shutil.copytree, first step: os.makedirs(dst, exist_ok=True).            *)
CopyTreeMkdir ==
    /\ InCopy
    /\ IsDir(fs[source_dir], source_file)
    /\ fs[dest_dir][source_file].kind \in {"none", "dir"}
    /\ fs' = IF fs[dest_dir][source_file].kind = "none"
             THEN WithEntry(dest_dir, source_file, Dir(NoKids))
             ELSE fs
    /\ todo' = {c \in Children : fs[source_dir][source_file].kids[c] # "none"}
    /\ pc' = "copytree"
    /\ UNCHANGED <<config, call, new_root, idx, kid, root, base_calls>>

(* shutil.copytree, copy2 of one child: the destination is opened for       *)
(* writing, which creates or truncates it.                                  *)
CopyTreeOpen ==
    /\ pc = "copytree"
    /\ \E c \in todo :
          /\ fs' = WithKid(dest_dir, source_file, c, "partial")
          /\ kid' = c
          /\ todo' = todo \ {c}
    /\ pc' = "copy2"
    /\ UNCHANGED <<config, call, new_root, idx, root, base_calls>>

(* shutil.copytree, copy2 of one child: the bytes are written.              *)
CopyTreeWrite ==
    /\ pc = "copy2"
    /\ fs' = WithKid(dest_dir, source_file, kid,
                     fs[source_dir][source_file].kids[kid])
    /\ pc' = "copytree"
    /\ UNCHANGED <<config, call, new_root, idx, todo, kid, root, base_calls>>

(* shutil.copytree returns.                                                 *)
CopyTreeDone ==
    /\ pc = "copytree"
    /\ todo = {}
    /\ idx' = idx + 1
    /\ pc' = "copy"
    /\ UNCHANGED <<fs, config, call, new_root, todo, kid, root, base_calls>>

(* shutil.copy of a regular file: the destination is opened for writing.    *)
CopyFileOpen ==
    /\ InCopy
    /\ ~IsDir(fs[source_dir], source_file)
    /\ ShouldCopyFile(fs[dest_dir], source_file)
    /\ fs[source_dir][source_file].kind = "file"
    /\ fs' = WithEntry(dest_dir, WriteTarget(fs[dest_dir], source_file),
                       File("partial"))
    /\ pc' = "copyfile"
    /\ UNCHANGED <<config, call, new_root, idx, todo, kid, root, base_calls>>

(* shutil.copy of a regular file: the bytes are written.                    *)
CopyFileWrite ==
    /\ pc = "copyfile"
    /\ fs' = WithEntry(dest_dir, WriteTarget(fs[dest_dir], source_file),
                       File(fs[source_dir][source_file].data))
    /\ idx' = idx + 1
    /\ pc' = "copy"
    /\ UNCHANGED <<config, call, new_root, todo, kid, root, base_calls>>

(* shutil.copy(follow_symlinks=False) of a symbolic link: os.symlink.       *)
CopyLink ==
    /\ InCopy
    /\ ~IsDir(fs[source_dir], source_file)
    /\ ShouldCopyFile(fs[dest_dir], source_file)
    /\ fs[source_dir][source_file].kind = "link"
    /\ fs[dest_dir][source_file].kind = "none"
    /\ fs' = WithEntry(dest_dir, source_file,
                       Link(fs[source_dir][source_file].data))
    /\ idx' = idx + 1
    /\ UNCHANGED <<config, call, pc, new_root, todo, kid, root, base_calls>>

(* The destination file exists: nothing is copied.                          *)
CopySkip ==
    /\ InCopy
    /\ ~IsDir(fs[source_dir], source_file)
    /\ ~ShouldCopyFile(fs[dest_dir], source_file)
    /\ idx' = idx + 1
    /\ UNCHANGED <<fs, config, call, pc, new_root, todo, kid, root, base_calls>>

(* FileExistsError: os.makedirs on a path that is not a directory, or       *)
(* os.symlink on a path that holds a dangling link.                         *)
CopyFails ==
    /\ InCopy
    /\ IF IsDir(fs[source_dir], source_file)
       THEN fs[dest_dir][source_file].kind \in {"file", "link"}
       ELSE /\ ShouldCopyFile(fs[dest_dir], source_file)
            /\ fs[source_dir][source_file].kind = "link"
            /\ fs[dest_dir][source_file].kind = "link"
    /\ pc' = "failed"
    /\ UNCHANGED <<fs, config, call, new_root, idx, todo, kid, root, base_calls>>

(* copy_dataset_files returns; _custom_init assigns new_root.               *)
CopyReturn ==
    /\ pc = "copy"
    /\ idx > Len(required_files)
    /\ new_root' = NewRootOf(branch, original_root)
    /\ pc' = "base_init"
    /\ UNCHANGED <<fs, config, call, idx, todo, kid, root, base_calls>>

(* An OSError out of a copy step (disk full, permission, read-only target): *)
(* neither copy_dataset_files nor _custom_init catches it.                  *)
CopyOSError ==
    /\ pc \in {"copy", "copytree", "copy2", "copyfile"}
    /\ pc = "copy" => idx <= Len(required_files)
    /\ pc' = "failed"
    /\ UNCHANGED <<fs, config, call, new_root, idx, todo, kid, root, base_calls>>

(* The process is killed, or a write fails, in the middle of the copy.      *)
Interrupt ==
    /\ pc \in {"copy", "copytree", "copy2", "copyfile"}
    /\ pc' = "interrupted"
    /\ UNCHANGED <<fs, config, call, new_root, idx, todo, kid, root, base_calls>>

(* A variant that leaves the caller's root argument in place.               *)
BaseInit_CallerRoot ==
    /\ pc = "base_init"
    /\ root' = original_root
    /\ base_calls' = base_calls + 1
    /\ pc' = "done"
    /\ UNCHANGED <<fs, config, call, new_root, idx, todo, kid>>

(* bound_args.arguments["root"] = new_root or original_root; base_init(...) *)
BaseInit ==
    /\ pc = "base_init"
    /\ root' = IF new_root # None THEN new_root ELSE original_root
    /\ base_calls' = base_calls + 1
    /\ pc' = "done"
    /\ UNCHANGED <<fs, config, call, new_root, idx, todo, kid>>

Construct == \E orig \in {None, original_root_dir} : CustomInit(orig)

Next ==
    \/ Adapt
    \/ Construct
    \/ CopyTreeMkdir
    \/ CopyTreeOpen
    \/ CopyTreeWrite
    \/ CopyTreeDone
    \/ CopyFileOpen
    \/ CopyFileWrite
    \/ CopyLink
    \/ CopySkip
    \/ CopyFails
    \/ CopyReturn
    \/ CopyOSError
    \/ Interrupt
    \/ BaseInit

Spec == Init /\ [][Next]_vars

----------------------------------------------------------------------------
(* copy_dataset_files called directly by the processes of Procs, all with   *)
(* the same files_to_copy, source_dir and dest_dir. Each system call is a   *)
(* step of its own, so that the existence test of one process and the copy  *)
(* of another interleave.                                                   *)

PromoteInit ==
    /\ \E fa \in FastTiers, sc \in ScratchTiers :
          fs = [t \in Tiers |-> CASE t = fast_tmp_dir -> fa
                                  [] t = scratch_dir -> sc
                                  [] OTHER -> EmptyTier]
    /\ fs0 = fs
    /\ dataset_cls \in {d \in DatasetTypes : LookupFiles(d).found}
    /\ adapted = "yes"
    /\ required = LookupFiles(dataset_cls).files
    /\ tooLarge = FALSE
    /\ stored = FALSE
    /\ pc = "idle"
    /\ original_root = None
    /\ branch = None
    /\ new_root = None
    /\ source_dir = scratch_dir
    /\ dest_dir = fast_tmp_dir
    /\ idx = 1
    /\ todo = {}
    /\ kid = 1
    /\ root = None
    /\ copied = FALSE
    /\ base_calls = 0
    /\ runs = 0
    /\ promoters = [p \in Procs |-> NotCalled]
    /\ prepare = NotPrepared

(* What a call of copy_dataset_files leaves alone.                          *)
outside == <<tooLarge, stored, dataset_cls, adapted, required, fs0, construction,
             prepare>>

(* The promoter p at position q with the fields of r replaced.              *)
At(p, r) == [promoters EXCEPT ![p] = r]

(* The path the loop of process p is at.                                    *)
file_of(p) == required_files[promoters[p].idx]

InLoop(p) ==
    /\ promoters[p].pc = "copy"
    /\ promoters[p].idx <= Len(required_files)

(* The calls of copy_dataset_files made so far.                             *)
TotalCalls == promoters["p1"].calls + promoters["p2"].calls

(* A variant without the assertion (as under python -O).                    *)
SourceAsserted_Skipped(files, src) == TRUE

(* assert all_files_exist(files_to_copy, source_dir)                        *)
SourceAsserted(files, src) == all_files_exist(files, src)

(* A process calls copy_dataset_files: the assertion.                       *)
PromoteCall ==
    \E p \in Procs :
        /\ promoters[p].pc \in {"idle", "returned"}
        /\ TotalCalls < MaxCalls
        /\ promoters' = At(p, [promoters[p] EXCEPT
              !.pc = IF SourceAsserted(required_files, source_dir)
                     THEN "copy" ELSE "assert_failed",
              !.idx = 1,
              !.calls = @ + 1,
              !.snap = <<fs[dest_dir]>>])
        /\ UNCHANGED <<fs, outside>>

(* shutil.copytree, first step: os.makedirs(dst, exist_ok=True).            *)
PromoteTreeMkdir ==
    \E p \in Procs :
        /\ InLoop(p)
        /\ IsDir(fs[source_dir], file_of(p))
        /\ fs[dest_dir][file_of(p)].kind \in {"none", "dir"}
        /\ fs' = IF fs[dest_dir][file_of(p)].kind = "none"
                 THEN WithEntry(dest_dir, file_of(p), Dir(NoKids))
                 ELSE fs
        /\ promoters' = At(p, [promoters[p] EXCEPT
              !.pc = "copytree",
              !.todo = {c \in Children :
                          fs[source_dir][file_of(p)].kids[c] # "none"}])
        /\ UNCHANGED outside

(* shutil.copytree, copy2 of one child: the destination is opened for       *)
(* writing, which creates or truncates it.                                  *)
PromoteTreeOpen ==
    \E p \in Procs :
        /\ promoters[p].pc = "copytree"
        /\ \E c \in promoters[p].todo :
              /\ fs' = WithKid(dest_dir, file_of(p), c, "partial")
              /\ promoters' = At(p, [promoters[p] EXCEPT
                    !.pc = "copy2", !.kid = c, !.todo = @ \ {c}])
        /\ UNCHANGED outside

(* shutil.copytree, copy2 of one child: the bytes are written.              *)
PromoteTreeWrite ==
    \E p \in Procs :
        /\ promoters[p].pc = "copy2"
        /\ fs' = WithKid(dest_dir, file_of(p), promoters[p].kid,
                         fs[source_dir][file_of(p)].kids[promoters[p].kid])
        /\ promoters' = At(p, [promoters[p] EXCEPT !.pc = "copytree"])
        /\ UNCHANGED outside

(* shutil.copytree returns.                                                 *)
PromoteTreeDone ==
    \E p \in Procs :
        /\ promoters[p].pc = "copytree"
        /\ promoters[p].todo = {}
        /\ promoters' = At(p, [promoters[p] EXCEPT
              !.pc = "copy", !.idx = @ + 1])
        /\ UNCHANGED <<fs, outside>>

(* elif not destination_path.exists(): the test, a step before the copy.    *)
PromoteCheck ==
    \E p \in Procs :
        /\ InLoop(p)
        /\ ~IsDir(fs[source_dir], file_of(p))
        /\ promoters' = At(p,
              IF ShouldCopyFile(fs[dest_dir], file_of(p))
              THEN [promoters[p] EXCEPT !.pc = "shutil.copy"]
              ELSE [promoters[p] EXCEPT !.idx = @ + 1])
        /\ UNCHANGED <<fs, outside>>

(* shutil.copy of a regular file: the destination is opened for writing,    *)
(* whatever has appeared there since the test.                              *)
PromoteFileOpen ==
    \E p \in Procs :
        /\ promoters[p].pc = "shutil.copy"
        /\ fs[source_dir][file_of(p)].kind = "file"
        /\ fs' = WithEntry(dest_dir, WriteTarget(fs[dest_dir], file_of(p)),
                           File("partial"))
        /\ promoters' = At(p, [promoters[p] EXCEPT !.pc = "copyfile"])
        /\ UNCHANGED outside

(* shutil.copy of a regular file: the bytes are written.                    *)
PromoteFileWrite ==
    \E p \in Procs :
        /\ promoters[p].pc = "copyfile"
        /\ fs' = WithEntry(dest_dir, WriteTarget(fs[dest_dir], file_of(p)),
                           File(fs[source_dir][file_of(p)].data))
        /\ promoters' = At(p, [promoters[p] EXCEPT
              !.pc = "copy", !.idx = @ + 1])
        /\ UNCHANGED outside

(* shutil.copy(follow_symlinks=False) of a symbolic link: os.symlink on a   *)
(* free path.                                                               *)
PromoteLink ==
    \E p \in Procs :
        /\ promoters[p].pc = "shutil.copy"
        /\ fs[source_dir][file_of(p)].kind = "link"
        /\ fs[dest_dir][file_of(p)].kind = "none"
        /\ fs' = WithEntry(dest_dir, file_of(p),
                           Link(fs[source_dir][file_of(p)].data))
        /\ promoters' = At(p, [promoters[p] EXCEPT
              !.pc = "copy", !.idx = @ + 1])
        /\ UNCHANGED outside

(* FileExistsError: os.makedirs on a path that is not a directory, or       *)
(* os.symlink on a path that holds anything, a dangling link included.      *)
PromoteFails ==
    \E p \in Procs :
        /\ IF promoters[p].pc = "shutil.copy"
           THEN /\ fs[source_dir][file_of(p)].kind = "link"
                /\ fs[dest_dir][file_of(p)].kind # "none"
           ELSE /\ InLoop(p)
                /\ IsDir(fs[source_dir], file_of(p))
                /\ fs[dest_dir][file_of(p)].kind \in {"file", "link"}
        /\ promoters' = At(p, [promoters[p] EXCEPT !.pc = "failed"])
        /\ UNCHANGED <<fs, outside>>

(* copy_dataset_files returns.                                              *)
PromoteReturn ==
    \E p \in Procs :
        /\ promoters[p].pc = "copy"
        /\ promoters[p].idx > Len(required_files)
        /\ promoters' = At(p, [promoters[p] EXCEPT !.pc = "returned"])
        /\ UNCHANGED <<fs, outside>>

PromoteNext ==
    \/ PromoteCall
    \/ PromoteTreeMkdir
    \/ PromoteTreeOpen
    \/ PromoteTreeWrite
    \/ PromoteTreeDone
    \/ PromoteCheck
    \/ PromoteFileOpen
    \/ PromoteFileWrite
    \/ PromoteLink
    \/ PromoteFails
    \/ PromoteReturn

PromoteSpec == PromoteInit /\ [][PromoteNext]_vars

----------------------------------------------------------------------------
(* CityscapesDataModule.prepare_data, called by one job, again after it     *)
(* returned, failed or was killed.                                          *)

(* SLURM_TMPDIR/cityscapes at the start of the job: absent, or a directory  *)
(* with files left there, none of them done.txt.                            *)
DataDirs ==
    {<<FALSE, NoKids>>} \cup
    {<<TRUE, k>> : k \in [Children -> {"none", "old"}]}

CityscapesInit ==
    /\ fs = [t \in Tiers |-> EmptyTier]
    /\ fs0 = fs
    /\ dataset_cls = [cls |-> "EMNIST", name |-> "EMNIST"]
    /\ adapted = "no"
    /\ required = <<>>
    /\ tooLarge = FALSE
    /\ stored = FALSE
    /\ pc = "idle"
    /\ original_root = None
    /\ branch = None
    /\ new_root = None
    /\ source_dir = None
    /\ dest_dir = None
    /\ idx = 1
    /\ todo = {}
    /\ kid = 1
    /\ root = None
    /\ copied = FALSE
    /\ base_calls = 0
    /\ runs = 0
    /\ promoters = [p \in Procs |-> NotCalled]
    /\ \E cl \in {"MILA", "CEDAR"}, d \in DataDirs,
          k \in [Children -> {"none", "C"}] :
          prepare = [NotPrepared EXCEPT
              !.cluster = cl,
              !.src = IF cl \in DOMAIN cityscapes_dir_locations
                      THEN k ELSE NoKids,
              !.dir = d[1], !.kids = d[2], !.before = d]

(* What prepare_data leaves alone.                                          *)
elsewhere == <<fs, fs0, tooLarge, stored, dataset_cls, adapted, required,
               construction, promoters>>

(* A variant that creates done.txt before the copy.                         *)
PrepareData_MarkerFirst ==
    /\ prepare.pc \in {"idle", "done", "not_implemented", "failed",
                       "interrupted"}
    /\ prepare.calls < MaxPrepares
    /\ prepare' = [prepare EXCEPT
          !.pc = IF prepare.cluster \notin DOMAIN cityscapes_dir_locations
                 THEN "not_implemented"
                 ELSE IF prepare.done THEN "super" ELSE "makedirs",
          !.done = @ \/ prepare.cluster \in DOMAIN cityscapes_dir_locations,
          !.calls = @ + 1,
          !.marked = prepare.done,
          !.before = <<prepare.dir, prepare.kids>>,
          !.wrote = FALSE]
    /\ UNCHANGED elsewhere

(* prepare_data up to the copy: the lookup of the cluster and the test of   *)
(* done.txt.                                                                *)
PrepareData ==
    /\ prepare.pc \in {"idle", "done", "not_implemented", "failed",
                       "interrupted"}
    /\ prepare.calls < MaxPrepares
    /\ prepare' = [prepare EXCEPT
          !.pc = IF prepare.cluster \notin DOMAIN cityscapes_dir_locations
                 THEN "not_implemented"
                 ELSE IF prepare.done THEN "super" ELSE "makedirs",
          !.calls = @ + 1,
          !.marked = prepare.done,
          !.before = <<prepare.dir, prepare.kids>>,
          !.wrote = FALSE]
    /\ UNCHANGED elsewhere

(* shutil.copytree, first step: os.makedirs(dst, exist_ok=True).            *)
PrepareMkdir ==
    /\ prepare.pc = "makedirs"
    /\ prepare' = [prepare EXCEPT
          !.pc = "copytree",
          !.dir = TRUE,
          !.todo = {c \in Children : prepare.src[c] # "none"},
          !.wrote = TRUE]
    /\ UNCHANGED elsewhere

(* shutil.copytree, copy2 of one file: the destination is opened for        *)
(* writing, which creates or truncates it.                                  *)
PrepareTreeOpen ==
    /\ prepare.pc = "copytree"
    /\ \E c \in prepare.todo :
          prepare' = [prepare EXCEPT
              !.pc = "copy2", !.kid = c, !.todo = @ \ {c},
              !.kids[c] = "partial"]
    /\ UNCHANGED elsewhere

(* shutil.copytree, copy2 of one file: the bytes are written.               *)
PrepareTreeWrite ==
    /\ prepare.pc = "copy2"
    /\ prepare' = [prepare EXCEPT
          !.pc = "copytree", !.kids[prepare.kid] = prepare.src[prepare.kid]]
    /\ UNCHANGED elsewhere

(* shutil.copytree returns.                                                 *)
PrepareTreeDone ==
    /\ prepare.pc = "copytree"
    /\ prepare.todo = {}
    /\ prepare' = [prepare EXCEPT !.pc = "touch"]
    /\ UNCHANGED elsewhere

(* done_file.touch()                                                        *)
PrepareTouch ==
    /\ prepare.pc = "touch"
    /\ prepare' = [prepare EXCEPT !.pc = "super", !.done = TRUE]
    /\ UNCHANGED elsewhere

(* super().prepare_data()                                                   *)
PrepareSuper ==
    /\ prepare.pc = "super"
    /\ prepare' = [prepare EXCEPT !.pc = "done"]
    /\ UNCHANGED elsewhere

(* An OSError out of copytree or touch (disk full, permission): prepare_data *)
(* does not catch it.                                                       *)
PrepareOSError ==
    /\ prepare.pc \in {"makedirs", "copytree", "copy2", "touch"}
    /\ prepare' = [prepare EXCEPT !.pc = "failed"]
    /\ UNCHANGED elsewhere

(* The job is killed in the middle of the copy or before the touch.         *)
PrepareInterrupt ==
    /\ prepare.pc \in {"makedirs", "copytree", "copy2", "touch"}
    /\ prepare' = [prepare EXCEPT !.pc = "interrupted"]
    /\ UNCHANGED elsewhere

CityscapesNext ==
    \/ PrepareData
    \/ PrepareMkdir
    \/ PrepareTreeOpen
    \/ PrepareTreeWrite
    \/ PrepareTreeDone
    \/ PrepareTouch
    \/ PrepareSuper
    \/ PrepareOSError
    \/ PrepareInterrupt

CityscapesSpec == CityscapesInit /\ [][CityscapesNext]_vars

----------------------------------------------------------------------------
(* Vocabulary of the properties.  The preconditions are evaluated on fs0,   *)
(* the file system the construction found when it was invoked.              *)

Invoked == runs > 0
Returned == pc = "done"
Delegating == pc \in {"base_init", "done"}
Copying == pc \in {"copy", "copytree", "copy2", "copyfile"}

InFast == all_files_existed(required_files, fast_tmp_dir)
InScratch == all_files_existed(required_files, scratch_dir)
InDatasetRoot == stored /\ all_files_existed(required_files, dataset_root)
InOriginalRoot ==
    original_root # None /\ all_files_existed(required_files, original_root)
InCwd == all_files_existed(required_files, cwd)

(* No required path exists in the fast tier.                                *)
NoneInFast ==
    \A i \in 1..Len(required_files) :
        ~PathExists(fs0[fast_tmp_dir], required_files[i])

FastUntouched == fs[fast_tmp_dir] = fs0[fast_tmp_dir]

(* The required path holds in dst everything src holds for it, completely   *)
(* written.                                                                 *)
FullyCopied(dst, src, path) ==
    IF IsDir(src, path)
    THEN /\ dst[path].kind = "dir"
         /\ \A c \in Children :
               src[path].kids[c] # "none" =>
                   dst[path].kids[c] \notin {"none", "partial"}
    ELSE /\ PathExists(dst, path)
         /\ Read(dst, path) # <<"partial">>

----------------------------------------------------------------------------
(* C1: when all required files are in the fast tier at invocation, the      *)
(* construction copies nothing, changes no file, does not fail, and calls   *)
(* the base constructor with the fast tier as root, whatever the other      *)
(* locations hold.                                                          *)
C1_FastTierFirst ==
    (Invoked /\ InFast) =>
        /\ ~copied
        /\ fs = fs0
        /\ Delegating
        /\ Returned => root = fast_tmp_dir

C1_Witness ==
    /\ Returned
    /\ InFast
    /\ InScratch
    /\ ~tooLarge
    /\ root = fast_tmp_dir

(* C2: files in no way present in the fast tier, all present in scratch,    *)
(* dataset not size-exempt: the construction copies, roots the base         *)
(* constructor at the fast tier, and every required path then exists in     *)
(* the fast tier and reads the same as in scratch.                          *)
C2_PromotionFromScratch ==
    (Returned /\ NoneInFast /\ InScratch /\ ~tooLarge) =>
        /\ copied
        /\ root = fast_tmp_dir
        /\ \A i \in 1..Len(required_files) :
              /\ PathExists(fs[fast_tmp_dir], required_files[i])
              /\ Read(fs[fast_tmp_dir], required_files[i])
                    = Read(fs[scratch_dir], required_files[i])

(* C3: a size-exempt dataset whose files are in scratch and not in the      *)
(* fast tier is read from scratch: no copy, the fast tier is left as it     *)
(* was.                                                                     *)
C3_SizeException ==
    (Invoked /\ tooLarge /\ InScratch /\ ~InFast) =>
        /\ ~copied
        /\ FastUntouched
        /\ Delegating
        /\ Returned => root = scratch_dir

C3_Witness ==
    /\ Returned
    /\ tooLarge
    /\ InScratch
    /\ NoneInFast
    /\ root = scratch_dir
    /\ fs[fast_tmp_dir] = EmptyTier

(* C4: files absent from the fast tier and from scratch, all present under  *)
(* the registered shared root, dataset not size-exempt: the construction    *)
(* copies them and the base constructor is rooted at the fast tier.         *)
C4_ReadFromFastAfterSharedPromotion ==
    (Returned /\ ~InFast /\ ~InScratch /\ InDatasetRoot /\ ~tooLarge) =>
        /\ copied
        /\ root = fast_tmp_dir

(* C5: a size-exempt dataset found only under the registered shared root    *)
(* is read in place: no copy into the fast tier, root is the shared root.   *)
C5_SizeExceptionFromShared ==
    (Invoked /\ tooLarge /\ ~InFast /\ ~InScratch /\ InDatasetRoot) =>
        /\ ~copied
        /\ FastUntouched
        /\ Returned => root = dataset_root

(* C6: none of the fast tier, scratch and the registered shared root has    *)
(* the files and the caller's root does: the base constructor gets the      *)
(* caller's root and nothing is copied.                                     *)
C6_CallerRootFallback ==
    (Invoked /\ ~InFast /\ ~InScratch /\ ~InDatasetRoot /\ InOriginalRoot) =>
        /\ ~copied
        /\ fs = fs0
        /\ Delegating
        /\ Returned => root = original_root

C6_Witness ==
    /\ Returned
    /\ ~InFast /\ ~InScratch /\ ~InDatasetRoot
    /\ InOriginalRoot
    /\ InCwd
    /\ root = original_root_dir

(* C7: no candidate location has the files: no error, no copy, and the      *)
(* base constructor is rooted at the scratch data directory.                *)
C7_NotFoundUsesScratch ==
    (Invoked /\ ~InFast /\ ~InScratch /\ ~InDatasetRoot /\ ~InOriginalRoot
        /\ ~InCwd) =>
        /\ ~copied
        /\ fs = fs0
        /\ Delegating
        /\ Returned => root = scratch_dir

C7_Witness ==
    /\ Returned
    /\ ~InFast /\ ~InScratch /\ ~InDatasetRoot /\ ~InOriginalRoot /\ ~InCwd
    /\ original_root = original_root_dir
    /\ root = scratch_dir

(* C8: when copy_dataset_files has returned normally, every required path   *)
(* exists under the destination.                                            *)
C8_Completeness ==
    (copied /\ Delegating) => all_files_exist(required_files, dest_dir)

(* C9: while copy_dataset_files is under way or was interrupted, the        *)
(* destination passes all_files_exist only if every required path is        *)
(* completely copied.                                                       *)
C9_IncompleteUntilCopied ==
    (copied /\ (Copying \/ pc = "interrupted")
        /\ all_files_exist(required_files, dest_dir)) =>
        \A i \in 1..Len(required_files) :
            FullyCopied(fs[dest_dir], fs[source_dir], required_files[i])

(* C10: a required file that exists at the destination when the copy        *)
(* starts, with contents other than the source's, keeps its contents.       *)
C10_NoClobber ==
    copied =>
        \A i \in 1..Len(required_files) :
            LET path == required_files[i] IN
            (/\ ~IsDir(fs0[dest_dir], path)
             /\ PathExists(fs0[dest_dir], path)
             /\ ~IsDir(fs[source_dir], path)
             /\ Read(fs[source_dir], path) # Read(fs0[dest_dir], path)) =>
                 Read(fs[dest_dir], path) = Read(fs0[dest_dir], path)

C10_Witness ==
    /\ copied
    /\ Delegating
    /\ fs0[dest_dir][FilePath] = File("B")
    /\ fs[source_dir][FilePath] = File("A")
    /\ fs[dest_dir][FilePath] = File("B")

----------------------------------------------------------------------------
(* Vocabulary of the registry properties.                                   *)
RegisteredTypes == {dataset_files[i].cls : i \in DOMAIN dataset_files}
RegisteredNames == {dataset_files[i].name : i \in DOMAIN dataset_files}
Unregistered ==
    /\ dataset_cls.cls \notin RegisteredTypes
    /\ dataset_cls.name \notin RegisteredNames

(* The files the registry gives for a registered type, and the files of     *)
(* the first registered type of a name.                                     *)
OwnFiles(c) ==
    (CHOOSE e \in {dataset_files[i] : i \in DOMAIN dataset_files} :
        e.cls = c).files
FilesOfName(n) ==
    LET i == CHOOSE k \in DOMAIN dataset_files :
                 /\ dataset_files[k].name = n
                 /\ \A j \in 1..(k - 1) : dataset_files[j].name # n
    IN dataset_files[i].files
ExpectedFiles ==
    IF dataset_cls.cls \in RegisteredTypes
    THEN OwnFiles(dataset_cls.cls)
    ELSE FilesOfName(dataset_cls.name)

(* C14: for a dataset type registered neither by identity nor by name the   *)
(* error is raised by adapted_constructor: no construction is ever invoked, *)
(* no existence check or copy is made, the file system is untouched.        *)
C14_UnknownDatasetImmediate ==
    Unregistered =>
        /\ adapted \in {"no", "error"}
        /\ runs = 0
        /\ pc = "idle"
        /\ ~copied
        /\ branch = None
        /\ fs = fs0

C14_Witness ==
    /\ Unregistered
    /\ adapted = "error"

(* C15: a type registered by identity uses its own entry; a type that is    *)
(* not, but bears a registered name, is adapted without error and uses the  *)
(* files of the registered dataset of that name, also in resolution.        *)
C15_NameFallback ==
    (~Unregistered /\ adapted # "no") =>
        /\ adapted = "yes"
        /\ required = ExpectedFiles
        /\ (Invoked /\ all_files_existed(ExpectedFiles, fast_tmp_dir)) =>
               branch = "fast"
        /\ (Invoked /\ branch = "fast") =>
               all_files_existed(ExpectedFiles, fast_tmp_dir)

C15_Witness ==
    /\ dataset_cls.cls \notin RegisteredTypes
    /\ dataset_cls.name \in RegisteredNames
    /\ Returned
    /\ required = <<DirPath, FilePath>>
    /\ branch = "fast"

(* C16: a copy to the fast tier that fails with an I/O error does not end   *)
(* the construction with the error.                                         *)
C16_FallbackOnCopyFailure == ~(copied /\ pc = "failed")

(* Every file of the old tier contents is in the new one, unchanged.        *)
FilesKept(old, new) ==
    \A p \in Paths :
        /\ old[p].kind \in {"file", "link"} => new[p] = old[p]
        /\ old[p].kind = "dir" =>
              /\ new[p].kind = "dir"
              /\ \A c \in Children :
                    old[p].kids[c] # "none" => new[p].kids[c] = old[p].kids[c]

(* C17: no file that exists in scratch or in the fast tier when a           *)
(* construction is invoked is modified or deleted by it, files inside an    *)
(* already present required directory included.                             *)
C17_AppendOnly ==
    /\ FilesKept(fs0[scratch_dir], fs[scratch_dir])
    /\ FilesKept(fs0[fast_tmp_dir], fs[fast_tmp_dir])

(* C18 as stated: none of the fast tier, scratch, the shared root and the   *)
(* caller's root (supplied or not) has the files and the current directory  *)
(* does: no copy, and the root is not redirected to scratch.                *)
C18_CwdStep ==
    (Invoked /\ ~InFast /\ ~InScratch /\ ~InDatasetRoot /\ ~InOriginalRoot
        /\ InCwd) =>
        /\ ~copied
        /\ branch = "cwd"
        /\ Returned => root # scratch_dir

(* C18 amended: the same when the caller supplied no root; the base         *)
(* constructor then gets the root argument as the caller left it.           *)
C18_CwdStepWithoutCallerRoot ==
    (Invoked /\ ~InFast /\ ~InScratch /\ ~InDatasetRoot /\ original_root = None
        /\ InCwd) =>
        /\ ~copied
        /\ fs = fs0
        /\ branch = "cwd"
        /\ Delegating
        /\ Returned => root = None

C18_Witness ==
    /\ Returned
    /\ ~InFast /\ ~InScratch /\ ~InDatasetRoot
    /\ original_root = None
    /\ InCwd
    /\ root = None

(* C19: all_files_exist is true exactly when every required path is a file  *)
(* or a directory under the base (or a link to one); it is false for a base *)
(* with nothing in it; a construction that only evaluates it changes no     *)
(* file.                                                                    *)
C19_ExistenceOracle ==
    adapted = "yes" =>
        /\ \A t \in Tiers :
              /\ all_files_exist(required_files, t) <=>
                    \A p \in {required_files[i] : i \in 1..Len(required_files)} :
                        \/ fs[t][p].kind \in {"file", "dir"}
                        \/ /\ fs[t][p].kind = "link"
                           /\ fs[t][fs[t][p].data].kind # "none"
              /\ fs[t] = EmptyTier => ~all_files_exist(required_files, t)
        /\ (Invoked /\ ~copied) => fs = fs0

C19_Witness ==
    /\ Returned
    /\ branch = "fast"
    /\ fs[fast_tmp_dir][DirPath].kind = "dir"
    /\ fs[fast_tmp_dir][FilePath].kind = "file"
    /\ Len(required_files) = 2
    /\ fs[scratch_dir][DirPath].kind = "dir"
    /\ fs[scratch_dir][FilePath].kind = "none"
    /\ fs[cwd] = EmptyTier

(* C20: a construction calls the base constructor at most once, exactly     *)
(* once when it returns, after the copy (if any) has gone through all       *)
(* required paths, with new_root as root, or the caller's root when no      *)
(* new root was selected.                                                   *)
C20_Delegation ==
    /\ base_calls = IF Returned THEN 1 ELSE 0
    /\ Returned =>
          /\ copied => idx > Len(required_files)
          /\ new_root # None => root = new_root
          /\ new_root = None => root = original_root
          /\ branch = "original_root" => root = original_root

C20_Witness ==
    /\ Returned
    /\ copied
    /\ base_calls = 1
    /\ original_root = original_root_dir
    /\ root = fast_tmp_dir

----------------------------------------------------------------------------
(* Direct calls of copy_dataset_files (PromoteSpec).                        *)

SourceComplete == all_files_exist(required_files, source_dir)
OnlyCaller(p) == \A q \in Procs \ {p} : promoters[q].calls = 0
NoPromoterFailed == \A p \in Procs : promoters[p].pc # "failed"
AllReturned == \A p \in Procs : promoters[p].pc = "returned"

(* Every completely written file of the old tier contents is in the new     *)
(* one, unchanged.                                                          *)
CompleteKept(old, new) ==
    \A path \in Paths :
        /\ (old[path].kind = "file" /\ old[path].data # "partial") =>
              new[path] = old[path]
        /\ old[path].kind = "dir" =>
              \A c \in Children :
                  old[path].kids[c] \notin {"none", "partial"} =>
                      /\ new[path].kind = "dir"
                      /\ new[path].kids[c] = old[path].kids[c]

(* C11: a process that calls copy_dataset_files again after its call        *)
(* returned, no other process calling, gets no error from the later call    *)
(* and finds on its return the destination as the earlier call left it.     *)
C11_Idempotence ==
    \A p \in Procs :
        (OnlyCaller(p) /\ promoters[p].calls >= 2) =>
            /\ promoters[p].pc \notin {"failed", "assert_failed"}
            /\ promoters[p].pc = "returned" =>
                  fs[dest_dir] = promoters[p].snap[1]

(* C12: when the processes each call copy_dataset_files once, from a        *)
(* complete source into a destination that starts empty, no step makes a    *)
(* process fail, alters a completely written file of the destination, or    *)
(* leaves, once all have returned, a required path missing or incomplete.   *)
C12_ConcurrentPromotion ==
    [][(/\ SourceComplete
        /\ fs0[dest_dir] = EmptyTier
        /\ \A p \in Procs : promoters[p].calls <= 1) =>
           /\ NoPromoterFailed'
           /\ CompleteKept(fs[dest_dir], fs'[dest_dir])
           /\ AllReturned' =>
                 \A i \in 1..Len(required_files) :
                     FullyCopied(fs'[dest_dir], fs'[source_dir],
                                 required_files[i])]_vars

(* C13: when a required path is missing under the source, every call of     *)
(* copy_dataset_files stops at its assertion: no process reaches a copy     *)
(* step or returns, no file system entry changes, and no base constructor   *)
(* is called.                                                               *)
C13_IncompleteSourceRejected ==
    ~SourceComplete =>
        /\ \A p \in Procs : promoters[p].pc \in {"idle", "assert_failed"}
        /\ fs = fs0
        /\ base_calls = 0

C13_Witness ==
    /\ ~SourceComplete
    /\ \A p \in Procs : promoters[p].pc = "assert_failed"
    /\ fs0[dest_dir] # EmptyTier
    /\ \E i \in 1..Len(required_files) :
          PathExists(fs[source_dir], required_files[i])

----------------------------------------------------------------------------
(* Frame of the constructions (Spec).                                       *)

SlowTiers == Tiers \ {fast_tmp_dir}

Warm == Delegating /\ (copied \/ branch = "fast")

(* C22: a construction invoked when the fast tier is warm takes the first   *)
(* branch: it calls no copy_dataset_files and goes to the base constructor  *)
(* with the fast tier as the new root.                                      *)
C22_WarmCache ==
    [][(Warm /\ runs' = runs + 1) =>
          /\ branch' = "fast"
          /\ ~copied'
          /\ pc' = "base_init"
          /\ new_root' = fast_tmp_dir]_vars

----------------------------------------------------------------------------
(* CityscapesDataModule.prepare_data (CityscapesSpec).                      *)

ClusterKnown == prepare.cluster \in DOMAIN cityscapes_dir_locations

(* Every file of the cityscapes directory is in data_dir, completely        *)
(* written.                                                                 *)
CityscapesCopied ==
    /\ prepare.dir
    /\ \A c \in Children :
          prepare.src[c] # "none" => prepare.kids[c] = prepare.src[c]

DataDirAsFound == <<prepare.dir, prepare.kids>> = prepare.before

(* C23: done.txt exists only when every file of the cityscapes directory    *)
(* is completely copied, also after a failed or killed call; a call that    *)
(* finds done.txt makes no copy step and leaves data_dir as it found it; a  *)
(* call that does not find it reaches super().prepare_data() only after     *)
(* the copy and with done.txt created; on a cluster without a known         *)
(* location every call ends in NotImplementedError with nothing copied and  *)
(* no done.txt.                                                             *)
C23_DoneMarker ==
    /\ prepare.done => CityscapesCopied
    /\ (prepare.calls > 0 /\ prepare.marked) =>
          /\ ~prepare.wrote
          /\ DataDirAsFound
          /\ prepare.pc \in {"super", "done"}
    /\ (prepare.calls > 0 /\ ClusterKnown /\ ~prepare.marked
           /\ prepare.pc \in {"super", "done"}) =>
          /\ prepare.wrote
          /\ prepare.done
    /\ ~ClusterKnown =>
          /\ prepare.pc \in {"idle", "not_implemented"}
          /\ ~prepare.done
          /\ ~prepare.wrote
          /\ DataDirAsFound

C23_Witness ==
    /\ prepare.calls = 3
    /\ prepare.marked
    /\ prepare.pc = "done"
    /\ \E c \in Children : prepare.kids[c] = "C"

====
